---- MODULE Spec2Model ----
(***************************************************************************)
(* The rlp type-info cache (rlp/typecache.go): a process-wide map from     *)
(* typekey{Type, tags} to *typeinfo guarded by a sync.RWMutex, filled by   *)
(* cachedTypeInfo / cachedTypeInfo1 / genTypeInfo, with structFields and   *)
(* parseStructTag re-entering cachedTypeInfo1 for the types of the fields. *)
(* Every goroutine is a thread with an explicit call stack; the heap holds *)
(* the typeinfo records allocated by new(typeinfo) at typecache.go:82.     *)
(* Spec runs the goroutines on the types of Roots, EnumSpec on the types   *)
(* of EnumRoots (structs whose enumeration fails), ParseSpec runs          *)
(* parseStructTag alone on every tag of a bounded set.                     *)
(***************************************************************************)
EXTENDS Integers, Sequences, FiniteSets, TLC

\* ---------------------------------------------------------------- bounds
\* number of goroutines calling cachedTypeInfo
NThreads == 2
\* total number of top-level cachedTypeInfo calls in one run
MaxCalls == 3
\* deepest call stack a goroutine may grow (the go runtime's stack limit)
MaxDepth == 20

Threads == 1..NThreads
NoThread == 0

\* the nil *typeinfo
Nil == 0

\* ------------------------------------------------------- struct tags
\* type tags struct { nilOK, tail, ignored bool }
Tags(n, t, i) == [nilOK |-> n, tail |-> t, ignored |-> i]
NoTags == Tags(FALSE, FALSE, FALSE)

\* the key as it would be if it were the type alone
typekeyNoTags(typ, tags) == [typ |-> typ, tags |-> NoTags]

\* type typekey struct { reflect.Type; tags }
typekey(typ, tags) == [typ |-> typ, tags |-> tags]

\* unicode.IsSpace on the characters the tag strings of the model use
IsSpace(c) == c \in {" ", "\t"}

RECURSIVE TrimLeft(_)
TrimLeft(s) ==
  IF Len(s) > 0 /\ IsSpace(Head(s)) THEN TrimLeft(Tail(s)) ELSE s

RECURSIVE TrimRight(_)
TrimRight(s) ==
  IF Len(s) > 0 /\ IsSpace(s[Len(s)]) THEN TrimRight(SubSeq(s, 1, Len(s) - 1)) ELSE s

\* strings.TrimSpace
TrimSpace(s) == TrimRight(TrimLeft(s))

\* strings.Split(s, ","): a string is a sequence of one-character strings;
\* the empty string splits into one empty token
RECURSIVE Split(_)
Split(s) ==
  IF \E i \in 1..Len(s) : s[i] = ","
  THEN LET i == CHOOSE j \in 1..Len(s) : s[j] = "," /\ \A h \in 1..(j - 1) : s[h] # ","
       IN  <<SubSeq(s, 1, i - 1)>> \o Split(SubSeq(s, i + 1, Len(s)))
  ELSE <<s>>

\* ------------------------------------------------------- the type graph
\* reflect.Type values of the run.  A struct field is
\* [name, exported (PkgPath == ""), tag (the rlp tag), typ].
Field(name, exported, tag, typ) ==
  [name |-> name, exported |-> exported, tag |-> tag, typ |-> typ]

TUint == [kind |-> "uint", elem |-> "", fields |-> <<>>]
TChan == [kind |-> "chan", elem |-> "", fields |-> <<>>]
TPtr(e) == [kind |-> "ptr", elem |-> e, fields |-> <<>>]
TSlice(e) == [kind |-> "slice", elem |-> e, fields |-> <<>>]
TStruct(fs) == [kind |-> "struct", elem |-> "", fields |-> fs]

tagNone == <<>>
tagNil == <<"n", "i", "l">>
tagIgnore == <<" ", "-">>
tagBogus == <<"b", "o", "g", "u", "s">>
tagTail == <<"t", "a", "i", "l">>

\*   U   uint                      Ch  chan int (not serializable)
\*   M   struct { V uint; hid uint `rlp:"bogus"`; Skip chan int `rlp:" -"`;
\*                N *N }
\*   N   struct { Self *N `rlp:"nil"`; M *M; Rest []uint `rlp:"tail"` }
\*       (N refers to itself, M and N refer to each other; all builds succeed)
\*   A   struct { X *B; Y chan int }                     (its build fails)
\*   B   struct { Z *A }
\*   E   struct { P *E; T []uint `rlp:"tail"`; Z uint }
\*       (the tag of T fails to parse: tail is not on the last field)
\*   G   struct { C chan int; Z uint `rlp:"bogus"` }
\*       (the type of C has no info; the tag of Z would fail to parse)
\*   W   struct { Q *W `rlp:"nil"` }                  (refers to itself)
TypeGraph ==
  [U  |-> TUint,
   Ch |-> TChan,
   SU |-> TSlice("U"),
   M  |-> TStruct(<<Field("V", TRUE, tagNone, "U"),
                    Field("hid", FALSE, tagBogus, "U"),
                    Field("Skip", TRUE, tagIgnore, "Ch"),
                    Field("N", TRUE, tagNone, "PN")>>),
   N  |-> TStruct(<<Field("Self", TRUE, tagNil, "PN"),
                    Field("M", TRUE, tagNone, "PM"),
                    Field("Rest", TRUE, tagTail, "SU")>>),
   PM |-> TPtr("M"),
   PN |-> TPtr("N"),
   A  |-> TStruct(<<Field("X", TRUE, tagNone, "PB"),
                    Field("Y", TRUE, tagNone, "Ch")>>),
   B  |-> TStruct(<<Field("Z", TRUE, tagNone, "PA")>>),
   PA |-> TPtr("A"),
   PB |-> TPtr("B"),
   E  |-> TStruct(<<Field("P", TRUE, tagNone, "PE"),
                    Field("T", TRUE, tagTail, "SU"),
                    Field("Z", TRUE, tagNone, "U")>>),
   G  |-> TStruct(<<Field("C", TRUE, tagNone, "Ch"),
                    Field("Z", TRUE, tagBogus, "U")>>),
   W  |-> TStruct(<<Field("Q", TRUE, tagNil, "PW")>>),
   PE |-> TPtr("E"),
   PW |-> TPtr("W")]

Types == DOMAIN TypeGraph

\* the types the goroutines ask cachedTypeInfo for
Roots == {"M", "A", "PB"}

\* the types the goroutines ask for in the runs that look at structFields
EnumRoots == {"E", "G", "W"}

NumField(typ) == Len(TypeGraph[typ].fields)
Kind(typ) == TypeGraph[typ].kind

\* ------------------------------------------------------- parseStructTag
\* the tail check as it would be if the position of the field were not looked at
IsLastAlways(fi, nf) == TRUE

\* fi != typ.NumField()-1 (typecache.go:130), negated: field fi is the last
\* of the nf fields of the struct
IsLast(fi, nf) == fi = nf - 1

\* the token as it would be if it were compared without being trimmed
TrimTokenNone(tok) == tok

\* strings.TrimSpace(t) of the switch (typecache.go:123)
TrimToken(tok) == TrimSpace(tok)

\* the loop of parseStructTag over the tokens toks[j..] of the tag of field
\* fi, of kind kind, of a struct of nf fields: (ts, err)
RECURSIVE ParseTokens(_, _, _, _, _, _)
ParseTokens(toks, j, ts, fi, nf, kind) ==
  IF j > Len(toks) THEN [ts |-> ts, err |-> ""]
  ELSE LET t == TrimToken(toks[j]) IN
       CASE t = <<>> -> ParseTokens(toks, j + 1, ts, fi, nf, kind)
         [] t = <<"-">> ->
              ParseTokens(toks, j + 1, [ts EXCEPT !.ignored = TRUE], fi, nf, kind)
         [] t = <<"n", "i", "l">> ->
              ParseTokens(toks, j + 1, [ts EXCEPT !.nilOK = TRUE], fi, nf, kind)
         [] t = <<"t", "a", "i", "l">> ->
              LET ts1 == [ts EXCEPT !.tail = TRUE] IN
              IF ~IsLast(fi, nf)
              THEN [ts |-> ts1, err |-> "tail: must be on last field"]
              ELSE IF kind # "slice"
              THEN [ts |-> ts1, err |-> "tail: field type is not slice"]
              ELSE ParseTokens(toks, j + 1, ts1, fi, nf, kind)
         [] OTHER -> [ts |-> ts, err |-> "unknown struct tag"]

\* the body of parseStructTag on the rlp tag of field fi (0-based), of kind
\* kind, of a struct of nf fields
ParseTag(tag, fi, nf, kind) == ParseTokens(Split(tag), 1, NoTags, fi, nf, kind)

\* parseStructTag(typ, fi): fi is the 0-based field index
parseStructTag(typ, fi) ==
  ParseTag(TypeGraph[typ].fields[fi + 1].tag, fi, NumField(typ),
           Kind(TypeGraph[typ].fields[fi + 1].typ))

\* ------------------------------------------------------- typeinfo records
\* decoder / writer function values: the closure built for (typ, tags) and
\* the field infos it captured; NilFn is the nil func
NilFn == [what |-> "nil", typ |-> "", tags |-> NoTags, fields |-> <<>>]
Closure(what, typ, tags, fields) ==
  [what |-> what, typ |-> typ, tags |-> tags, fields |-> fields]

\* type typeinfo struct { decoder; writer }; new(typeinfo) is ZeroInfo
ZeroInfo == [decoder |-> NilFn, writer |-> NilFn]

\* neither strategy of the record at address p of heap h is nil
IsPopulated(h, p) ==
  /\ p # Nil
  /\ h[p].decoder # NilFn
  /\ h[p].writer # NilFn

\* the go map: a function whose domain is the set of keys present
MapGet(m, k) == IF k \in DOMAIN m THEN m[k] ELSE Nil
MapPut(m, k, v) == [x \in DOMAIN m \cup {k} |-> IF x = k THEN v ELSE m[x]]
MapDelete(m, k) == [x \in DOMAIN m \ {k} |-> m[x]]
EmptyMap == [x \in {} |-> Nil]

\* counters kept per key
Count(f, k) == IF k \in DOMAIN f THEN f[k] ELSE 0
Incr(f, k) == MapPut(f, k, Count(f, k) + 1)

\* ------------------------------------------------------- state
VARIABLES
  readers,    \* typeCacheMutex: goroutines holding it in read mode
  writer,     \* typeCacheMutex: goroutine holding it in write mode, or NoThread
  typeCache,  \* map[typekey]*typeinfo
  heap,       \* the typeinfo records allocated by new(typeinfo), by address
  pc,         \* position of each goroutine in cachedTypeInfo
  key,        \* cachedTypeInfo: typekey{typ, tags} of the call
  info,       \* cachedTypeInfo: the local info read on the fast path
  stack,      \* frames of cachedTypeInfo1/genTypeInfo/make*/structFields
  ret,        \* value returned by the frame that has just returned
  calls,      \* top-level calls started so far
  result,     \* what the last cachedTypeInfo call of each goroutine returned,
              \* and whether the record was filled at that moment
  returned,   \* history: (key, info) of every non-error top-level return
  retLog,     \* history: (key, info, build, still a dummy) of every non-error
              \* return of cachedTypeInfo1
  genCalls,   \* history: genTypeInfo invocations per key
  genOK,      \* history: genTypeInfo invocations per key that returned no error
  genFail,    \* history: genTypeInfo invocations per key that returned an error
  okBld,      \* history: per key, the number of the invocation that succeeded
  accesses,   \* history: (operation on typeCache, lock mode held, nested)
  callLog,    \* history: per goroutine, the cache as its call found it under
              \* the write lock and what the call has done since
  parse       \* the parseStructTag call of ParseSpec: its input and its output

vars == <<readers, writer, typeCache, heap, pc, key, info, stack, ret, calls,
          result, returned, retLog, genCalls, genOK, genFail, okBld, accesses,
          callLog, parse>>

mutexVars == <<readers, writer>>
histVars == <<returned, retLog, genCalls, genOK, genFail, okBld, accesses>>

\* ------------------------------------------------------- frames and returns
Frame(fn, typ, tags) ==
  [fn |-> fn, pc |-> "start", typ |-> typ, tags |-> tags, i |-> 0,
   fields |-> <<>>, info |-> ZeroInfo, ph |-> Nil]

NoRet == [set |-> FALSE, err |-> "", ptr |-> Nil, info |-> ZeroInfo,
          fn |-> NilFn, fields |-> <<>>]
RetErr(e) == [NoRet EXCEPT !.set = TRUE, !.err = e]
RetPtr(p) == [NoRet EXCEPT !.set = TRUE, !.ptr = p]
RetInfo(v) == [NoRet EXCEPT !.set = TRUE, !.info = v]
RetFn(f) == [NoRet EXCEPT !.set = TRUE, !.fn = f]
RetFields(fs) == [NoRet EXCEPT !.set = TRUE, !.fields = fs]

NoResult == [set |-> FALSE, key |-> typekey("", NoTags), ptr |-> Nil, err |-> "",
             slow |-> FALSE, full |-> FALSE]

Top(t) == stack[t][Len(stack[t])]
Pop(s) == SubSeq(s, 1, Len(s) - 1)
SetTop(s, f) == [s EXCEPT ![Len(s)] = f]
Push(s, f) == Append(s, f)

Running(t, fn, fpc) ==
  /\ pc[t] = "run"
  /\ stack[t] # <<>>
  /\ Top(t).fn = fn
  /\ Top(t).pc = fpc

\* the lock mode goroutine t holds
Held(t) == IF writer = t THEN "w" ELSE IF t \in readers THEN "r" ELSE "none"

Access(t, op, nested) == [op |-> op, held |-> Held(t), nested |-> nested]

\* one thing a call has done: the build of (typ, tags) begun or completed,
\* the tag of field i of typ parsed, the type of field i of typ asked for or
\* failed, a type found to have no strategy
Event(ev, typ, tags, i, err) ==
  [ev |-> ev, typ |-> typ, tags |-> tags, i |-> i, err |-> err]

NoLog == [cache |-> EmptyMap, evs |-> {}]

Log(t, E) == [callLog EXCEPT ![t].evs = @ \cup E]

\* no parseStructTag call is being looked at
NoParse ==
  [set |-> FALSE, toks |-> <<>>, fi |-> 0, nf |-> 0, vis |-> <<>>, kind |-> "",
   done |-> FALSE, out |-> [ts |-> NoTags, err |-> ""]]

\* everything but the parseStructTag call of ParseSpec
cacheVars == <<readers, writer, typeCache, heap, pc, key, info, stack, ret,
               calls, result, returned, retLog, genCalls, genOK, genFail, okBld,
               accesses, callLog>>

\* the empty cache, the free mutex and idle goroutines
InitCache ==
  /\ readers = {}
  /\ writer = NoThread
  /\ typeCache = EmptyMap
  /\ heap = <<>>
  /\ pc = [t \in Threads |-> "idle"]
  /\ key = [t \in Threads |-> typekey("", NoTags)]
  /\ info = [t \in Threads |-> Nil]
  /\ stack = [t \in Threads |-> <<>>]
  /\ ret = [t \in Threads |-> NoRet]
  /\ calls = 0
  /\ result = [t \in Threads |-> NoResult]
  /\ returned = {}
  /\ retLog = {}
  /\ genCalls = EmptyMap
  /\ genOK = EmptyMap
  /\ genFail = EmptyMap
  /\ okBld = EmptyMap
  /\ accesses = {}
  /\ callLog = [t \in Threads |-> NoLog]

Init ==
  /\ InitCache
  /\ parse = NoParse

\* ------------------------------------------------------- cachedTypeInfo
\* goroutine t has made a call
Started(t) == pc[t] # "idle" \/ result[t].set

\* a goroutine calls cachedTypeInfo(typ, tags{}) (typecache.go:59).  The
\* goroutines are interchangeable, so they are numbered in the order of
\* their first calls.
Call(t, typ) ==
  /\ pc[t] = "idle"
  /\ calls < MaxCalls
  /\ \A u \in Threads : u < t => Started(u)
  /\ calls' = calls + 1
  /\ key' = [key EXCEPT ![t] = typekey(typ, NoTags)]
  /\ info' = [info EXCEPT ![t] = Nil]
  /\ result' = [result EXCEPT ![t] = NoResult]
  /\ pc' = [pc EXCEPT ![t] = "rlock"]
  /\ UNCHANGED <<mutexVars, typeCache, heap, stack, ret, histVars, callLog,
                 parse>>

\* the fast path as it would be without taking the read lock
RLockSkip(t) ==
  /\ pc[t] = "rlock"
  /\ pc' = [pc EXCEPT ![t] = "lookup"]
  /\ UNCHANGED <<readers, writer, typeCache, heap, key, info, stack, ret, calls,
                 parse, callLog,
                 result, histVars>>

\* RLock as it would be if it did not wait for the writer to unlock
RLockNoWait(t) ==
  /\ pc[t] = "rlock"
  /\ readers' = readers \cup {t}
  /\ pc' = [pc EXCEPT ![t] = "lookup"]
  /\ UNCHANGED <<writer, typeCache, heap, key, info, stack, ret, calls,
                 parse, callLog, result, histVars>>

\* typeCacheMutex.RLock() (typecache.go:60)
RLock(t) ==
  /\ pc[t] = "rlock"
  /\ writer = NoThread
  /\ readers' = readers \cup {t}
  /\ pc' = [pc EXCEPT ![t] = "lookup"]
  /\ UNCHANGED <<writer, typeCache, heap, key, info, stack, ret, calls,
                 parse, callLog, result,
                 histVars>>

\* info := typeCache[typekey{typ, tags}] (typecache.go:61)
Lookup(t) ==
  /\ pc[t] = "lookup"
  /\ info' = [info EXCEPT ![t] = MapGet(typeCache, key[t])]
  /\ accesses' = accesses \cup {Access(t, "read", FALSE)}
  /\ pc' = [pc EXCEPT ![t] = "runlock"]
  /\ UNCHANGED <<mutexVars, typeCache, heap, key, stack, ret, calls,
                 parse, callLog, result,
                 returned, retLog, genCalls, genOK, genFail, okBld>>

\* typeCacheMutex.RUnlock(); if info != nil { return info, nil }
\* (typecache.go:62-65)
RUnlock(t) ==
  /\ pc[t] = "runlock"
  /\ readers' = readers \ {t}
  /\ IF info[t] # Nil
     THEN /\ pc' = [pc EXCEPT ![t] = "idle"]
          /\ result' = [result EXCEPT ![t] =
               [set |-> TRUE, key |-> key[t], ptr |-> info[t], err |-> "",
                slow |-> FALSE, full |-> IsPopulated(heap, info[t])]]
          /\ returned' = returned \cup {[key |-> key[t], ptr |-> info[t]]}
     ELSE /\ pc' = [pc EXCEPT ![t] = "lock"]
          /\ UNCHANGED <<result, returned>>
  /\ UNCHANGED <<writer, typeCache, heap, key, info, stack, ret, calls,
                 parse, callLog,
                 retLog, genCalls, genOK, genFail, okBld, accesses>>

\* Lock as it would be if it did not wait for the mutex to be free
LockNoWait(t) ==
  /\ pc[t] = "lock"
  /\ writer' = t
  /\ stack' = [stack EXCEPT ![t] =
       <<Frame("cachedTypeInfo1", key[t].typ, key[t].tags)>>]
  /\ ret' = [ret EXCEPT ![t] = NoRet]
  /\ pc' = [pc EXCEPT ![t] = "run"]
  /\ callLog' = [callLog EXCEPT ![t] = [cache |-> typeCache, evs |-> {}]]
  /\ UNCHANGED <<readers, typeCache, heap, key, info, calls, parse, result,
                 histVars>>

\* typeCacheMutex.Lock(); defer typeCacheMutex.Unlock();
\* cachedTypeInfo1(typ, tags) is called (typecache.go:67-69)
Lock(t) ==
  /\ pc[t] = "lock"
  /\ writer = NoThread
  /\ readers = {}
  /\ writer' = t
  /\ stack' = [stack EXCEPT ![t] =
       <<Frame("cachedTypeInfo1", key[t].typ, key[t].tags)>>]
  /\ ret' = [ret EXCEPT ![t] = NoRet]
  /\ pc' = [pc EXCEPT ![t] = "run"]
  /\ callLog' = [callLog EXCEPT ![t] = [cache |-> typeCache, evs |-> {}]]
  /\ UNCHANGED <<readers, typeCache, heap, key, info, calls, parse, result,
                 histVars>>

\* the return as it would be if the write lock were released only when
\* cachedTypeInfo1 returned no error
UnlockOnSuccess(t) ==
  /\ pc[t] = "run"
  /\ stack[t] = <<>>
  /\ ret[t].set
  /\ writer' = IF ret[t].err = "" THEN NoThread ELSE writer
  /\ result' = [result EXCEPT ![t] =
       [set |-> TRUE, key |-> key[t], ptr |-> ret[t].ptr, err |-> ret[t].err,
        slow |-> TRUE, full |-> IsPopulated(heap, ret[t].ptr)]]
  /\ returned' = IF ret[t].err = ""
                 THEN returned \cup {[key |-> key[t], ptr |-> ret[t].ptr]}
                 ELSE returned
  /\ ret' = [ret EXCEPT ![t] = NoRet]
  /\ pc' = [pc EXCEPT ![t] = "idle"]
  /\ callLog' = [callLog EXCEPT ![t] = NoLog]
  /\ UNCHANGED <<readers, typeCache, heap, key, info, stack, calls, parse,
                 retLog, genCalls, genOK, genFail, okBld, accesses>>

\* cachedTypeInfo1 has returned: the deferred Unlock runs and cachedTypeInfo
\* returns its result (typecache.go:68-69)
Unlock(t) ==
  /\ pc[t] = "run"
  /\ stack[t] = <<>>
  /\ ret[t].set
  /\ writer' = NoThread
  /\ result' = [result EXCEPT ![t] =
       [set |-> TRUE, key |-> key[t], ptr |-> ret[t].ptr, err |-> ret[t].err,
        slow |-> TRUE, full |-> IsPopulated(heap, ret[t].ptr)]]
  /\ returned' = IF ret[t].err = ""
                 THEN returned \cup {[key |-> key[t], ptr |-> ret[t].ptr]}
                 ELSE returned
  /\ ret' = [ret EXCEPT ![t] = NoRet]
  /\ pc' = [pc EXCEPT ![t] = "idle"]
  /\ callLog' = [callLog EXCEPT ![t] = NoLog]
  /\ UNCHANGED <<readers, typeCache, heap, key, info, stack, calls, parse,
                 retLog, genCalls, genOK, genFail, okBld, accesses>>

\* ------------------------------------------------------- cachedTypeInfo1
\* the check as it would be if only a dummy value counted as a hit
CacheHitStale(p) == p # Nil /\ ~IsPopulated(heap, p)

\* the check as it would be if a dummy value did not count as a hit
CacheHitPopulated(p) == p # Nil /\ IsPopulated(heap, p)

\* info != nil (typecache.go:75)
CacheHit(p) == p # Nil

\* the dummy value allocated but not put into the cache
InsertDummyNoStore(m, h, k) ==
  [cache |-> m, heap |-> Append(h, ZeroInfo)]

\* typeCache[key] = new(typeinfo) (typecache.go:82): the map and the heap
\* after the placeholder is allocated and stored
InsertDummy(m, h, k) ==
  [cache |-> MapPut(m, k, Len(h) + 1), heap |-> Append(h, ZeroInfo)]

\* the rollback as it would be if a failure emptied the whole cache
RollbackAll(m, k) == EmptyMap

\* the rollback as it would be if the dummy value were left in the cache
RollbackNone(m, k) == m

\* delete(typeCache, key) (typecache.go:86)
Rollback(m, k) == MapDelete(m, k)

\* the success path as it would be if the generated info were dropped
PopulateNone(m, h, k, v) == [cache |-> m, heap |-> h]

\* the success path as it would be if the map entry were replaced by a new
\* record (typeCache[key] = info) instead of being filled in place
PopulateReplace(m, h, k, v) ==
  [cache |-> MapPut(m, k, Len(h) + 1), heap |-> Append(h, v)]

\* *typeCache[key] = *info (typecache.go:89): the record the map holds for
\* the key is overwritten in place, the map itself is not written
Populate(m, h, k, v) ==
  [cache |-> m, heap |-> [h EXCEPT ![m[k]] = v]]

\* lines 73-83: look the key up; on a hit return it, otherwise store the
\* dummy value and call genTypeInfo
CTI1Enter(t) ==
  /\ Running(t, "cachedTypeInfo1", "start")
  /\ LET f == Top(t)
         k == typekey(f.typ, f.tags)
         p == MapGet(typeCache, k)
         nested == Len(stack[t]) > 1
     IN IF CacheHit(p)
        THEN /\ stack' = [stack EXCEPT ![t] = Pop(stack[t])]
             /\ ret' = [ret EXCEPT ![t] = RetPtr(p)]
             /\ retLog' = retLog \cup
                  {[key |-> k, ptr |-> p, bld |-> Count(genCalls, k),
                    dummy |-> ~IsPopulated(heap, p),
                    typ |-> f.typ, tags |-> f.tags]}
             /\ accesses' = accesses \cup {Access(t, "read", nested)}
             /\ UNCHANGED <<typeCache, heap, genCalls, callLog>>
        ELSE /\ Len(stack[t]) < MaxDepth
             /\ LET new == InsertDummy(typeCache, heap, k) IN
                /\ typeCache' = new.cache
                /\ heap' = new.heap
                /\ stack' = [stack EXCEPT ![t] =
                     Push(SetTop(stack[t],
                                 [f EXCEPT !.pc = "gen", !.ph = MapGet(new.cache, k)]),
                          Frame("genTypeInfo", f.typ, f.tags))]
             /\ genCalls' = Incr(genCalls, k)
             /\ accesses' = accesses \cup
                  {Access(t, "read", nested), Access(t, "insert", nested)}
             /\ callLog' = Log(t, {Event("begin", f.typ, f.tags, 0, "")})
             /\ UNCHANGED <<ret, retLog>>
  /\ UNCHANGED <<mutexVars, pc, key, info, calls,
                 parse, result, returned, genOK,
                 genFail, okBld>>

\* lines 84-90: genTypeInfo has returned; on an error delete the dummy value
\* and return the error, otherwise fill the dummy value and return it.  A
\* missing entry at line 89 is a nil dereference: the goroutine panics and
\* its deferred Unlock runs.
CTI1Finish(t) ==
  /\ Running(t, "cachedTypeInfo1", "gen")
  /\ ret[t].set
  /\ LET f == Top(t)
         k == typekey(f.typ, f.tags)
         nested == Len(stack[t]) > 1
     IN IF ret[t].err # ""
        THEN /\ typeCache' = Rollback(typeCache, k)
             /\ stack' = [stack EXCEPT ![t] = Pop(stack[t])]
             /\ ret' = [ret EXCEPT ![t] = RetErr(ret[t].err)]
             /\ genFail' = Incr(genFail, k)
             /\ accesses' = accesses \cup {Access(t, "delete", nested)}
             /\ UNCHANGED <<writer, heap, pc, retLog, genOK, okBld, callLog>>
        ELSE IF MapGet(typeCache, k) = Nil
        THEN /\ pc' = [pc EXCEPT ![t] = "panic"]
             /\ stack' = [stack EXCEPT ![t] = <<>>]
             /\ ret' = [ret EXCEPT ![t] = NoRet]
             /\ writer' = NoThread
             /\ genOK' = Incr(genOK, k)
             /\ accesses' = accesses \cup {Access(t, "read", nested)}
             /\ callLog' = [callLog EXCEPT ![t] = NoLog]
             /\ UNCHANGED <<typeCache, heap, retLog, genFail, okBld>>
        ELSE LET new == Populate(typeCache, heap, k, ret[t].info) IN
             /\ typeCache' = new.cache
             /\ heap' = new.heap
             /\ stack' = [stack EXCEPT ![t] = Pop(stack[t])]
             /\ ret' = [ret EXCEPT ![t] = RetPtr(MapGet(new.cache, k))]
             /\ genOK' = Incr(genOK, k)
             /\ okBld' = MapPut(okBld, k, Count(genCalls, k))
             /\ retLog' = retLog \cup
                  {[key |-> k, ptr |-> MapGet(new.cache, k),
                    bld |-> Count(genCalls, k), dummy |-> FALSE,
                    typ |-> f.typ, tags |-> f.tags]}
             /\ accesses' = accesses \cup
                  {Access(t, "read", nested), Access(t, "populate", nested)}
             /\ callLog' = Log(t, {Event("built", f.typ, f.tags, 0, "")})
             /\ UNCHANGED <<writer, pc, genFail>>
  /\ UNCHANGED <<readers, key, info, calls, parse, result, returned, genCalls>>

\* ------------------------------------------------------- genTypeInfo
\* info = new(typeinfo); makeDecoder(typ, tags) is called (typecache.go:144-145)
GenStart(t) ==
  /\ Running(t, "genTypeInfo", "start")
  /\ Len(stack[t]) < MaxDepth
  /\ LET f == Top(t) IN
     stack' = [stack EXCEPT ![t] =
       Push(SetTop(stack[t], [f EXCEPT !.pc = "dec"]),
            Frame("makeDecoder", f.typ, f.tags))]
  /\ UNCHANGED <<mutexVars, typeCache, heap, pc, key, info, ret, calls,
                 parse, callLog, result,
                 histVars>>

\* makeDecoder has returned: on an error return nil, err; otherwise store the
\* decoder and call makeWriter(typ, tags) (typecache.go:145-148)
GenDecoded(t) ==
  /\ Running(t, "genTypeInfo", "dec")
  /\ ret[t].set
  /\ LET f == Top(t) IN
     IF ret[t].err # ""
     THEN /\ stack' = [stack EXCEPT ![t] = Pop(stack[t])]
          /\ ret' = [ret EXCEPT ![t] = RetErr(ret[t].err)]
     ELSE /\ stack' = [stack EXCEPT ![t] =
               Push(SetTop(stack[t],
                           [f EXCEPT !.pc = "wr", !.info.decoder = ret[t].fn]),
                    Frame("makeWriter", f.typ, f.tags))]
          /\ ret' = [ret EXCEPT ![t] = NoRet]
  /\ UNCHANGED <<mutexVars, typeCache, heap, pc, key, info, calls,
                 parse, callLog, result,
                 histVars>>

\* makeWriter has returned: on an error return nil, err; otherwise store the
\* writer and return info, nil (typecache.go:148-151)
GenWritten(t) ==
  /\ Running(t, "genTypeInfo", "wr")
  /\ ret[t].set
  /\ LET f == Top(t) IN
     /\ stack' = [stack EXCEPT ![t] = Pop(stack[t])]
     /\ ret' = [ret EXCEPT ![t] =
          IF ret[t].err # "" THEN RetErr(ret[t].err)
          ELSE RetInfo([f.info EXCEPT !.writer = ret[t].fn])]
  /\ UNCHANGED <<mutexVars, typeCache, heap, pc, key, info, calls,
                 parse, callLog, result,
                 histVars>>

\* ------------------------------------------------------- makeDecoder/makeWriter
\* The strategy builders for one type: a uint has a strategy of its own, a
\* chan has none (the build fails), a struct enumerates its fields with
\* structFields, a pointer or a slice resolves its element type with
\* cachedTypeInfo1(elem, tags{}).
Makers == {"makeDecoder", "makeWriter"}

MakeStart(t) ==
  /\ \E fn \in Makers : Running(t, fn, "start")
  /\ LET f == Top(t)
         kind == Kind(f.typ)
     IN CASE kind = "uint" ->
               /\ stack' = [stack EXCEPT ![t] = Pop(stack[t])]
               /\ ret' = [ret EXCEPT ![t] =
                    RetFn(Closure(f.fn, f.typ, f.tags, <<>>))]
               /\ UNCHANGED callLog
          [] kind = "chan" ->
               /\ stack' = [stack EXCEPT ![t] = Pop(stack[t])]
               /\ ret' = [ret EXCEPT ![t] = RetErr("type is not RLP-serializable")]
               /\ callLog' = Log(t, {Event("unsupported", f.typ, f.tags, 0,
                                           "type is not RLP-serializable")})
          [] kind = "struct" ->
               /\ Len(stack[t]) < MaxDepth
               /\ stack' = [stack EXCEPT ![t] =
                    Push(SetTop(stack[t], [f EXCEPT !.pc = "wait"]),
                         Frame("structFields", f.typ, NoTags))]
               /\ UNCHANGED <<ret, callLog>>
          [] kind \in {"ptr", "slice"} ->
               /\ Len(stack[t]) < MaxDepth
               /\ stack' = [stack EXCEPT ![t] =
                    Push(SetTop(stack[t], [f EXCEPT !.pc = "wait"]),
                         Frame("cachedTypeInfo1", TypeGraph[f.typ].elem, NoTags))]
               /\ UNCHANGED <<ret, callLog>>
  /\ UNCHANGED <<mutexVars, typeCache, heap, pc, key, info, calls,
                 parse, result,
                 histVars>>

\* structFields or cachedTypeInfo1 has returned to the builder: an error is
\* passed on, otherwise the strategy captures the infos it was given
MakeDone(t) ==
  /\ \E fn \in Makers : Running(t, fn, "wait")
  /\ ret[t].set
  /\ LET f == Top(t) IN
     /\ stack' = [stack EXCEPT ![t] = Pop(stack[t])]
     /\ ret' = [ret EXCEPT ![t] =
          IF ret[t].err # "" THEN RetErr(ret[t].err)
          ELSE IF Kind(f.typ) = "struct"
          THEN RetFn(Closure(f.fn, f.typ, f.tags, ret[t].fields))
          ELSE RetFn(Closure(f.fn, f.typ, f.tags,
                             <<[index |-> 0, info |-> ret[t].ptr]>>))]
  /\ UNCHANGED <<mutexVars, typeCache, heap, pc, key, info, calls,
                 parse, callLog, result,
                 histVars>>

\* ------------------------------------------------------- structFields
\* the filter as it would be if unexported fields were taken too
ExportedAll(fld) == TRUE

\* f.PkgPath == "" (typecache.go:100): the field is exported
Exported(fld) == fld.exported

\* the check as it would be if the error of parseStructTag were dropped
ParseFailedNever(parsed) == FALSE

\* err != nil after parseStructTag (typecache.go:102)
ParseFailed(parsed) == parsed.err # ""

\* the append as it would be if a field were numbered by its place among the
\* fields taken
FieldAppendDense(fs, i, p) == Append(fs, [index |-> Len(fs), info |-> p])

\* fields = append(fields, field{i, info}) (typecache.go:112)
FieldAppend(fs, i, p) == Append(fs, [index |-> i, info |-> p])

\* one iteration of the loop of structFields (typecache.go:99-108), or its
\* end (typecache.go:115): an unexported field is skipped, the tag of an
\* exported field is parsed, an error is returned, an ignored field is
\* skipped, and otherwise cachedTypeInfo1(f.Type, tags) is called
SFLoop(t) ==
  /\ Running(t, "structFields", "start")
  /\ LET f == Top(t) IN
     IF f.i >= NumField(f.typ)
     THEN /\ stack' = [stack EXCEPT ![t] = Pop(stack[t])]
          /\ ret' = [ret EXCEPT ![t] = RetFields(f.fields)]
          /\ UNCHANGED callLog
     ELSE LET fld == TypeGraph[f.typ].fields[f.i + 1] IN
          IF ~Exported(fld)
          THEN /\ stack' = [stack EXCEPT ![t] =
                    SetTop(stack[t], [f EXCEPT !.i = f.i + 1])]
               /\ UNCHANGED <<ret, callLog>>
          ELSE LET parsed == parseStructTag(f.typ, f.i)
                   parsedEv == Event("parse", f.typ, parsed.ts, f.i, parsed.err)
               IN
               IF ParseFailed(parsed)
               THEN /\ stack' = [stack EXCEPT ![t] = Pop(stack[t])]
                    /\ ret' = [ret EXCEPT ![t] = RetErr(parsed.err)]
                    /\ callLog' = Log(t, {parsedEv})
               ELSE IF parsed.ts.ignored
               THEN /\ stack' = [stack EXCEPT ![t] =
                         SetTop(stack[t], [f EXCEPT !.i = f.i + 1])]
                    /\ callLog' = Log(t, {parsedEv})
                    /\ UNCHANGED ret
               ELSE /\ Len(stack[t]) < MaxDepth
                    /\ stack' = [stack EXCEPT ![t] =
                         Push(SetTop(stack[t], [f EXCEPT !.pc = "wait"]),
                              Frame("cachedTypeInfo1", fld.typ, parsed.ts))]
                    /\ callLog' = Log(t, {parsedEv,
                         Event("resolve", f.typ, parsed.ts, f.i, "")})
                    /\ UNCHANGED ret
  /\ UNCHANGED <<mutexVars, typeCache, heap, pc, key, info, calls,
                 parse, result,
                 histVars>>

\* the return of cachedTypeInfo1 to structFields as it would be if a field
\* whose type has no info were left out and the loop went on
SFResumeSkip(t) ==
  /\ Running(t, "structFields", "wait")
  /\ ret[t].set
  /\ LET f == Top(t) IN
     IF ret[t].err # ""
     THEN /\ stack' = [stack EXCEPT ![t] =
               SetTop(stack[t], [f EXCEPT !.pc = "start", !.i = f.i + 1])]
          /\ ret' = [ret EXCEPT ![t] = NoRet]
          /\ callLog' = Log(t, {Event("fail", f.typ, NoTags, f.i, ret[t].err)})
     ELSE /\ stack' = [stack EXCEPT ![t] =
               SetTop(stack[t],
                      [f EXCEPT !.pc = "start", !.i = f.i + 1,
                                !.fields = FieldAppend(f.fields, f.i, ret[t].ptr)])]
          /\ ret' = [ret EXCEPT ![t] = NoRet]
          /\ UNCHANGED callLog
  /\ UNCHANGED <<mutexVars, typeCache, heap, pc, key, info, calls,
                 parse, result,
                 histVars>>

\* cachedTypeInfo1 has returned to structFields (typecache.go:109-112): an
\* error is returned with no fields, otherwise field{i, info} is appended
SFResume(t) ==
  /\ Running(t, "structFields", "wait")
  /\ ret[t].set
  /\ LET f == Top(t) IN
     IF ret[t].err # ""
     THEN /\ stack' = [stack EXCEPT ![t] = Pop(stack[t])]
          /\ ret' = [ret EXCEPT ![t] = RetErr(ret[t].err)]
          /\ callLog' = Log(t, {Event("fail", f.typ, NoTags, f.i, ret[t].err)})
     ELSE /\ stack' = [stack EXCEPT ![t] =
               SetTop(stack[t],
                      [f EXCEPT !.pc = "start", !.i = f.i + 1,
                                !.fields = FieldAppend(f.fields, f.i, ret[t].ptr)])]
          /\ ret' = [ret EXCEPT ![t] = NoRet]
          /\ UNCHANGED callLog
  /\ UNCHANGED <<mutexVars, typeCache, heap, pc, key, info, calls,
                 parse, result,
                 histVars>>

\* ------------------------------------------------------- specification
\* one step of goroutine t inside a call
Step(t) ==
  \/ RLock(t)
  \/ Lookup(t)
  \/ RUnlock(t)
  \/ Lock(t)
  \/ CTI1Enter(t)
  \/ CTI1Finish(t)
  \/ GenStart(t)
  \/ GenDecoded(t)
  \/ GenWritten(t)
  \/ MakeStart(t)
  \/ MakeDone(t)
  \/ SFLoop(t)
  \/ SFResume(t)
  \/ Unlock(t)

Next ==
  \E t \in Threads :
    \/ \E typ \in Roots : Call(t, typ)
    \/ Step(t)

Spec == Init /\ [][Next]_vars

\* the scheduler keeps running some goroutine that can take a step
FairSpec == Spec /\ WF_vars(\E t \in Threads : Step(t))

\* the same goroutines asking for the types of EnumRoots
EnumNext ==
  \E t \in Threads :
    \/ \E typ \in EnumRoots : Call(t, typ)
    \/ Step(t)

EnumSpec == Init /\ [][EnumNext]_vars

\* ------------------------------------------------------- parseStructTag alone
\* longest list of tokens in a tag, most fields in a struct
MaxTokens == 2
MaxFields == 2

\* the words a token can be, once trimmed: the four parseStructTag knows and
\* one it does not
Words == {"", "-", "nil", "tail", "bogus"}

WordChars(w) ==
  CASE w = "" -> <<>>
    [] w = "-" -> <<"-">>
    [] w = "nil" -> tagNil
    [] w = "tail" -> tagTail
    [] w = "bogus" -> tagBogus

\* a token of a tag: a word, written bare or between white space
Tokens == [word : Words, padded : BOOLEAN]

TokenChars(tok) ==
  IF tok.padded THEN <<" ">> \o WordChars(tok.word) \o <<"\t">>
  ELSE WordChars(tok.word)

\* the tag string whose comma-separated tokens are toks
RECURSIVE TagOf(_)
TagOf(toks) ==
  IF Len(toks) = 0 THEN <<>>
  ELSE IF Len(toks) = 1 THEN TokenChars(toks[1])
  ELSE TokenChars(toks[1]) \o <<",">> \o TagOf(Tail(toks))

\* field fi of a struct of nf fields, the field exported (structFields
\* parses no other), the others exported or not, its type of kind kind
ParseInput(toks, fi, nf, vis, kind) ==
  [set |-> TRUE, toks |-> toks, fi |-> fi, nf |-> nf, vis |-> vis,
   kind |-> kind, done |-> FALSE, out |-> NoParse.out]

ParseInit ==
  /\ InitCache
  /\ \E nf \in 1..MaxFields : \E fi \in 0..(nf - 1) :
       \E n \in 1..MaxTokens : \E toks \in [1..n -> Tokens] :
         \E vis \in [1..nf -> BOOLEAN] : \E kind \in {"slice", "uint"} :
           /\ vis[fi + 1]
           /\ parse = ParseInput(toks, fi, nf, vis, kind)

\* ts, err := parseStructTag(typ, fi) (typecache.go:118-141)
ParseApply ==
  /\ parse.set
  /\ ~parse.done
  /\ parse' = [parse EXCEPT !.done = TRUE,
                            !.out = ParseTag(TagOf(parse.toks), parse.fi,
                                             parse.nf, parse.kind)]
  /\ UNCHANGED cacheVars

ParseNext == ParseApply

ParseSpec == ParseInit /\ [][ParseNext]_vars

\* ======================================================= properties
Populated(p) == IsPopulated(heap, p)

\* the records a record's strategies captured while they were built
Refs(p) ==
  {heap[p].decoder.fields[i].info : i \in 1..Len(heap[p].decoder.fields)}
  \cup {heap[p].writer.fields[i].info : i \in 1..Len(heap[p].writer.fields)}

\* the records reachable from the records P through captured references
RECURSIVE ReachFrom(_)
ReachFrom(P) ==
  LET N == P \cup UNION {Refs(p) : p \in P}
  IN IF N = P THEN P ELSE ReachFrom(N)

KeyOf(typ) == typekey(typ, NoTags)

\* goroutine t is at the return of the cachedTypeInfo1 call made by
\* cachedTypeInfo, the write lock still held
AtReturn(t) == pc[t] = "run" /\ stack[t] = <<>> /\ ret[t].set

\* ------------------------------------------------------------------ C1
\* C1: whenever a top-level cachedTypeInfo call has returned a non-error
\* result, every record reachable from that result through the infos its
\* strategies captured is populated, at the return and ever after.
C1_ReachablePopulated ==
  \A e \in returned : \A q \in ReachFrom({e.ptr}) : Populated(q)

\* ------------------------------------------------------------------ C2
\* C2: every record a call returned was populated when the call returned it,
\* and for a key none of whose builds failed, any two goroutines whose calls
\* for that key have returned (in particular two calls that both missed on
\* the fast path, i.e. ran concurrently on the uncached key) got the same
\* record without error, and genTypeInfo ran exactly once for the key.
C2_BuiltOnce ==
  /\ \A t \in Threads : (result[t].set /\ result[t].err = "") => result[t].full
  /\ \A t1 \in Threads : \A t2 \in Threads \ {t1} :
    ( /\ result[t1].set
      /\ result[t2].set
      /\ result[t1].key = result[t2].key
      /\ Count(genFail, result[t1].key) = 0 )
    => /\ result[t1].err = "" /\ result[t2].err = ""
       /\ result[t1].ptr = result[t2].ptr
       /\ result[t1].full /\ result[t2].full
       /\ Count(genCalls, result[t1].key) = 1

\* two goroutines both missed the same key on the fast path and both returned
C2_Witness ==
  \E t1 \in Threads : \E t2 \in Threads \ {t1} :
    /\ result[t1].set /\ result[t2].set
    /\ result[t1].key = result[t2].key
    /\ result[t1].slow /\ result[t2].slow
    /\ result[t1].err = "" /\ result[t2].err = ""

\* ------------------------------------------------------------------ C3
\* C3: all non-error returns for a key give the same record, at most one
\* genTypeInfo invocation per key succeeds, and once a call for a key has
\* returned a record no step invokes genTypeInfo for that key again, changes
\* the record or changes the map entry of the key.
C3_SameRecord ==
  /\ \A e1 \in returned : \A e2 \in returned :
       e1.key = e2.key => e1.ptr = e2.ptr
  /\ \A k \in DOMAIN genOK : genOK[k] <= 1

C3_NoRebuild ==
  \A e \in returned :
    /\ Count(genCalls', e.key) = Count(genCalls, e.key)
    /\ heap'[e.ptr] = heap[e.ptr]
    /\ MapGet(typeCache', e.key) = e.ptr

C3_Idempotent == []C3_SameRecord /\ [][C3_NoRebuild]_vars

\* a key was built by one call and later returned from the cache by another,
\* with a failed build of some key in the same run
C3_Witness ==
  \E t1 \in Threads : \E t2 \in Threads \ {t1} :
    /\ result[t1].set /\ result[t2].set
    /\ result[t1].key = result[t2].key
    /\ result[t1].slow /\ ~result[t2].slow
    /\ genFail # EmptyMap

\* ------------------------------------------------------------------ C4
\* the types of the two cycles all of whose builds succeed: N -> *N -> N and
\* M -> *N -> N -> *M -> M
CycleTypes == {"M", "PN", "N", "PM"}

\* the keys goroutine t is building: its cachedTypeInfo1 frames that wait
\* for genTypeInfo, bottom first
BuildFrames(t) ==
  {j \in 1..Len(stack[t]) :
     stack[t][j].fn = "cachedTypeInfo1" /\ stack[t][j].pc = "gen"}

FrameKey(f) == typekey(f.typ, f.tags)

\* C4: resolving a self-referential or mutually recursive type terminates:
\* no key is built twice on one call stack, genTypeInfo runs at most once for
\* each key of a cycle whose builds succeed, a call for M that has returned
\* returned a populated record without error, and again and again no call
\* for M is still running (every call for M returns).
C4_NoReentry ==
  /\ \A k \in DOMAIN genCalls : k.typ \in CycleTypes => genCalls[k] <= 1
  /\ \A t \in Threads :
       (result[t].set /\ result[t].key = KeyOf("M")) =>
         (result[t].err = "" /\ result[t].full)
  /\ \A t \in Threads : \A i \in BuildFrames(t) : \A j \in BuildFrames(t) :
       i # j => FrameKey(stack[t][i]) # FrameKey(stack[t][j])

C4_Returns ==
  []<>(\A t \in Threads : key[t] = KeyOf("M") => pc[t] = "idle")

C4_RecursionTerminates == []C4_NoReentry /\ C4_Returns

\* the nested resolution of M, reached through *N, N and *M while M is being
\* built, has just returned M's dummy value to the builder of *M, after the
\* nested resolution of N reached through N's own field got N's dummy value
C4_Witness ==
  \E t \in Threads : \E j \in BuildFrames(t) :
    /\ stack[t][j].typ = "M"
    /\ ret[t].set
    /\ ret[t].ptr = stack[t][j].ph
    /\ ~Populated(ret[t].ptr)
    /\ Top(t).fn \in Makers /\ Top(t).typ = "PM"
    /\ \E e \in retLog : e.key = KeyOf("N") /\ e.dummy

\* ------------------------------------------------------------------ C5
InProgress(k) ==
  \E t \in Threads : \E j \in BuildFrames(t) : FrameKey(stack[t][j]) = k

\* C5: a call whose build fails returns the error and no record, and at its
\* return the map has no entry for its key; a call that returns no error
\* returns the populated map entry of its key; no failed build leaves its
\* dummy value behind (every entry is populated or being built), so the next
\* resolution of the key misses and runs genTypeInfo again, and every
\* genTypeInfo invocation is counted as a success, a failure or in progress.
C5_FailureRollback ==
  /\ \A t \in Threads : AtReturn(t) =>
       IF ret[t].err # ""
       THEN /\ ret[t].ptr = Nil
            /\ key[t] \notin DOMAIN typeCache
            /\ Count(genFail, key[t]) >= 1
       ELSE /\ ret[t].ptr # Nil
            /\ MapGet(typeCache, key[t]) = ret[t].ptr
            /\ Populated(ret[t].ptr)
  /\ \A t \in Threads : (result[t].set /\ result[t].err # "") => result[t].ptr = Nil
  /\ \A k \in DOMAIN typeCache : Populated(typeCache[k]) \/ InProgress(k)
  /\ \A k \in DOMAIN genCalls :
       genCalls[k] = Count(genOK, k) + Count(genFail, k)
                     + (IF InProgress(k) THEN 1 ELSE 0)

\* a call returned a record for a key one of whose earlier builds had failed
C5_Witness ==
  \E t \in Threads :
    /\ result[t].set
    /\ result[t].err = ""
    /\ Count(genFail, result[t].key) >= 1
    /\ Count(genOK, result[t].key) = 1

\* ------------------------------------------------------------------ C6
\* C6: while no goroutine holds the write lock every entry of the map is
\* populated, and the fast path never reads or returns a dummy value.
C6_NoDummyOutsideBuild ==
  /\ writer = NoThread => \A k \in DOMAIN typeCache : Populated(typeCache[k])
  /\ \A t \in Threads :
       (pc[t] = "runlock" /\ info[t] # Nil) => Populated(info[t])
  /\ \A t \in Threads : (result[t].set /\ ~result[t].slow) => result[t].full

\* the fast path has read an entry after a call for A failed below the top
\* level (in the build of chan int) and left entries behind
C6_Witness ==
  /\ writer = NoThread
  /\ Count(genFail, KeyOf("A")) >= 1
  /\ \E t \in Threads : pc[t] = "runlock" /\ info[t] # Nil

\* ------------------------------------------------------------------ C7
\* C7: every read of the map was made holding the mutex in read or write
\* mode, every insert, populate and delete holding it in write mode, every
\* access of a nested cachedTypeInfo1 holding it in write mode; a goroutine
\* has frames only while it holds the write lock, and no goroutine holds
\* the read lock while one holds the write lock.
C7_LockDiscipline ==
  /\ \A a \in accesses :
       /\ a.op = "read" => a.held \in {"r", "w"}
       /\ a.op \in {"insert", "populate", "delete"} => a.held = "w"
       /\ a.nested => a.held = "w"
  /\ \A t \in Threads : stack[t] # <<>> => writer = t
  /\ writer # NoThread => readers = {}

\* all kinds of access have happened, at the top level and nested
C7_Witness ==
  /\ [op |-> "read", held |-> "r", nested |-> FALSE] \in accesses
  /\ \A o \in {"read", "insert", "populate", "delete"} :
       /\ [op |-> o, held |-> "w", nested |-> TRUE] \in accesses
       /\ [op |-> o, held |-> "w", nested |-> FALSE] \in accesses

\* ------------------------------------------------------------------ C8
\* C8: a step keeps every populated entry: the key stays in the map, mapped
\* to the same record with the same strategies; a step that removes keys
\* removes exactly one, the key of the cachedTypeInfo1 frame whose
\* genTypeInfo has just returned an error, and what it removes is a dummy.
C8_Step ==
  /\ \A k \in DOMAIN typeCache :
       Populated(typeCache[k]) =>
         /\ k \in DOMAIN typeCache'
         /\ typeCache'[k] = typeCache[k]
         /\ heap'[typeCache[k]] = heap[typeCache[k]]
  /\ (DOMAIN typeCache \ DOMAIN typeCache') # {} =>
       \E t \in Threads :
         /\ Running(t, "cachedTypeInfo1", "gen")
         /\ ret[t].set /\ ret[t].err # ""
         /\ DOMAIN typeCache \ DOMAIN typeCache' = {FrameKey(Top(t))}
         /\ ~Populated(typeCache[FrameKey(Top(t))])

C8_AppendOnly == [][C8_Step]_vars

\* the failed call for A is at its return, every rollback done, and the
\* entry of M populated before it is in the map
C8_Witness ==
  \E t \in Threads :
    /\ AtReturn(t)
    /\ ret[t].err # ""
    /\ key[t] = KeyOf("A")
    /\ KeyOf("M") \in DOMAIN typeCache
    /\ Populated(typeCache[KeyOf("M")])

\* ------------------------------------------------------------------ C9
\* C9: for a key whose build succeeded, every record cachedTypeInfo1 returned
\* for the key during that build (to the nested resolutions, while it was
\* still a dummy) or after it is the record the map holds for the key, and
\* so is every record a top-level call returned for the key.
C9_PointerIdentity ==
  /\ \A e \in retLog :
       Count(okBld, e.key) = e.bld =>
         /\ MapGet(typeCache, e.key) = e.ptr
         /\ Populated(e.ptr)
  /\ \A e \in returned : MapGet(typeCache, e.key) = e.ptr

\* a record handed out as a dummy during the build that succeeded was later
\* returned by a top-level call
C9_Witness ==
  \E e \in retLog :
    /\ e.dummy
    /\ Count(okBld, e.key) = e.bld
    /\ [key |-> e.key, ptr |-> e.ptr] \in returned

\* ------------------------------------------------------------------ C10
\* C10: a goroutine holds the mutex only inside the locked sections (the read
\* lock across the lookup, the write lock while cachedTypeInfo1 runs), and
\* under fair scheduling again and again no call of cachedTypeInfo is still
\* running (every call returns).
C10_Released ==
  \A t \in Threads :
    /\ t \in readers <=> pc[t] \in {"lookup", "runlock"}
    /\ writer = t <=> pc[t] = "run"
    /\ stack[t] # <<>> => pc[t] = "run"

C10_Returns == []<>(\A t \in Threads : pc[t] = "idle")

C10_DeadlockFree == []C10_Released /\ C10_Returns

\* a goroutine waits for the write lock, held by a call for M that is inside
\* a nested resolution, after a call whose build of A failed released it
C10_Witness ==
  \E t1 \in Threads : \E t2 \in Threads \ {t1} :
    /\ pc[t1] = "lock"
    /\ writer = t2
    /\ key[t2] = KeyOf("M")
    /\ Len(stack[t2]) > 1
    /\ Count(genFail, KeyOf("A")) >= 1

\* ------------------------------------------------------------------ C11
\* the builder itself failed: a tag did not parse or a type has no strategy
BuilderFailure(e) ==
  \/ e.ev = "unsupported"
  \/ e.ev = "parse" /\ e.err # ""

\* C11: at the return of cachedTypeInfo1 to cachedTypeInfo the call returns
\* an error exactly when, during the call, parseStructTag failed or a type
\* was found to have no strategy, for the key asked for or for a key built
\* under it, and the error is the error of such a failure; a hit on a key
\* that is being built is never the cause of an error.
C11_ErrorIffBuilderFails ==
  \A t \in Threads :
    AtReturn(t) =>
      /\ (ret[t].err # "") <=> (\E e \in callLog[t].evs : BuilderFailure(e))
      /\ ret[t].err # "" =>
           \E e \in callLog[t].evs : BuilderFailure(e) /\ e.err = ret[t].err

\* a call for W, whose build met W again while W was being built, is at its
\* return without an error; a call whose build met E again while E was being
\* built is at its return with the error of the tag of E.T
C11_Witness ==
  \E t \in Threads :
    /\ AtReturn(t)
    /\ key[t].typ = "E"
    /\ ret[t].err = "tail: must be on last field"
    /\ \E e \in retLog : e.dummy /\ e.key = KeyOf("E")
    /\ \E e \in retLog : e.dummy /\ e.key = KeyOf("W")
    /\ \E w \in returned : w.key = KeyOf("W")

\* ------------------------------------------------------------------ C12
\* the words of the tokens of the tag that was parsed, in list order
ParseWords == [j \in 1..Len(parse.toks) |-> parse.toks[j].word]

\* the field of the parse is the last field of its struct and a slice
TailAllowed == parse.fi = parse.nf - 1 /\ parse.kind = "slice"

\* token j is an unknown word or a "tail" where none is allowed
Offending(j) ==
  \/ ParseWords[j] = "bogus"
  \/ ParseWords[j] = "tail" /\ ~TailAllowed

\* the flags of a parse that succeeded are the words that occur in the tag
FlagsAreWords ==
  parse.out.err = "" =>
    /\ parse.out.ts.ignored <=> (\E j \in DOMAIN ParseWords : ParseWords[j] = "-")
    /\ parse.out.ts.nilOK <=> (\E j \in DOMAIN ParseWords : ParseWords[j] = "nil")
    /\ parse.out.ts.tail <=> (\E j \in DOMAIN ParseWords : ParseWords[j] = "tail")

\* the parse succeeds exactly when every token is empty, "-", "nil" or an
\* allowed "tail"
SucceedsIffWellFormed ==
  (parse.out.err = "") <=> (\A j \in DOMAIN ParseWords : ~Offending(j))

\* C12 as stated: after parseStructTag has run on a tag that is a
\* comma-separated list of tokens, it has succeeded exactly when every token,
\* trimmed, is empty, "-", "nil" or an allowed "tail"; on success the three
\* flags are the words that occur, whatever their order and number; and when
\* a token that is none of the four words occurs the parse has failed with
\* the unknown-tag error.
C12_UnknownTagError ==
  parse.done =>
    /\ SucceedsIffWellFormed
    /\ FlagsAreWords
    /\ (\E j \in DOMAIN ParseWords : ParseWords[j] = "bogus") =>
         parse.out.err = "unknown struct tag"

\* the error parseStructTag reports for the offending token j
ErrorOf(j) ==
  IF ParseWords[j] = "bogus" THEN "unknown struct tag"
  ELSE IF parse.fi # parse.nf - 1 THEN "tail: must be on last field"
  ELSE "tail: field type is not slice"

\* C12, amended: success and the flags as stated; a parse that fails fails
\* with the error of the first offending token in list order, the
\* unknown-tag error for a token that is none of the four words and a tail
\* placement error for a "tail" that is not allowed.
C12_Grammar ==
  parse.done =>
    /\ SucceedsIffWellFormed
    /\ FlagsAreWords
    /\ \A j \in DOMAIN ParseWords :
         (Offending(j) /\ \A h \in 1..(j - 1) : ~Offending(h)) =>
           parse.out.err = ErrorOf(j)

\* the tag " tail\t,bogus" of a field that is not the last has been parsed:
\* the parse failed on the first token
C12_Witness ==
  /\ parse.done
  /\ ParseWords = <<"tail", "bogus">>
  /\ parse.toks[1].padded
  /\ parse.fi # parse.nf - 1
  /\ parse.out.err = "tail: must be on last field"

\* ------------------------------------------------------------------ C13
\* no exported field follows the field of the parse
LastVisible == \A j \in (parse.fi + 2)..parse.nf : ~parse.vis[j]

PlacementErrors == {"tail: must be on last field", "tail: field type is not slice"}

\* a parse that returns no error has set tail only on a slice field that no
\* exported field follows
TailOnlyWherePlaced ==
  (parse.out.err = "" /\ parse.out.ts.tail) =>
    (LastVisible /\ parse.kind = "slice")

\* the tag has a "tail" token and its field is followed by an exported field
\* or is not a slice
TailMisplaced ==
  /\ \E j \in DOMAIN ParseWords : ParseWords[j] = "tail"
  /\ ~LastVisible \/ parse.kind # "slice"

\* C13 as stated: a parse that returns no error has tail set only if the
\* field is the last exported field of the struct and a slice, and a "tail"
\* token on any other field makes the parse return a placement error.
C13_PlacementError ==
  parse.done =>
    /\ TailOnlyWherePlaced
    /\ TailMisplaced => parse.out.err \in PlacementErrors

\* C13, amended: tail is set without error only on the last exported field,
\* a slice; a "tail" token on any other field makes the parse fail, with a
\* placement error unless an unknown token comes before the first "tail".
C13_TailPlacement ==
  parse.done =>
    /\ TailOnlyWherePlaced
    /\ TailMisplaced =>
         /\ parse.out.err # ""
         /\ \A j \in DOMAIN ParseWords :
              (ParseWords[j] = "tail" /\ \A h \in 1..(j - 1) :
                                           ParseWords[h] \notin {"tail", "bogus"})
                => parse.out.err \in PlacementErrors

\* "nil,tail" has been parsed on the first of two exported fields and on a
\* last field that is no slice, each with its placement error, and "tail" on
\* a last slice field without error
C13_Witness ==
  /\ parse.done
  /\ ParseWords = <<"nil", "tail">>
  /\ parse.nf = 2
  /\ \/ parse.fi = 0 /\ parse.vis[2] /\ parse.kind = "slice"
        /\ parse.out.err = "tail: must be on last field"
     \/ parse.fi = 1 /\ parse.kind = "uint"
        /\ parse.out.err = "tail: field type is not slice"

\* ------------------------------------------------------------------ C14
\* field i (0-based) of struct typ
FieldAt(typ, i) == TypeGraph[typ].fields[i + 1]

\* what parseStructTag returns for every field of every type
FieldTags ==
  [typ \in Types |-> [i \in 0..(NumField(typ) - 1) |-> parseStructTag(typ, i)]]

\* the key structFields asks cachedTypeInfo1 for, for field i of typ
FieldKey(typ, i) == typekey(FieldAt(typ, i).typ, FieldTags[typ][i].ts)

\* the fields of typ that are exported and whose tag does not ignore them
KeptFields ==
  [typ \in Types |->
     {i \in 0..(NumField(typ) - 1) :
        FieldAt(typ, i).exported /\ ~FieldTags[typ][i].ts.ignored}]

Kept(typ) == KeptFields[typ]

\* the keys the build of a type asks for: the element of a pointer or a
\* slice, the kept fields of a struct
AskedBy ==
  [typ \in Types |->
     IF Kind(typ) \in {"ptr", "slice"}
     THEN {typekey(TypeGraph[typ].elem, NoTags)}
     ELSE {FieldKey(typ, i) : i \in KeptFields[typ]}]

\* structFields has just returned to the builder of a struct type
SFReturned(t) ==
  /\ pc[t] = "run"
  /\ stack[t] # <<>>
  /\ Top(t).fn \in Makers
  /\ Top(t).pc = "wait"
  /\ Kind(Top(t).typ) = "struct"
  /\ ret[t].set

\* key k is asked for by a goroutine, or by the build of a key that was built
Needed(k) ==
  \/ k.typ \in Roots /\ k.tags = NoTags
  \/ \E k2 \in DOMAIN genCalls : k \in AskedBy[k2.typ]

\* C14: when structFields returns without error its fields are exactly the
\* exported fields whose tag does not ignore them; the tag of an unexported
\* field is never parsed (the bogus tag of M.hid fails no build), the type
\* of an ignored field is never asked for, and no key is built or cached
\* but those a call or a kept field, a pointer or a slice asks for.
C14_FieldFiltering ==
  /\ \A t \in Threads :
       (SFReturned(t) /\ ret[t].err = "") =>
         /\ {ret[t].fields[j].index : j \in 1..Len(ret[t].fields)} = Kept(Top(t).typ)
         /\ Len(ret[t].fields) = Cardinality(Kept(Top(t).typ))
  /\ \A t \in Threads : \A e \in callLog[t].evs :
       /\ e.ev = "parse" => FieldAt(e.typ, e.i).exported
       /\ e.ev = "resolve" => e.i \in Kept(e.typ)
  /\ \A k \in DOMAIN genCalls \cup DOMAIN typeCache :
       ~k.tags.ignored /\ Needed(k)
  /\ KeyOf("M") \notin DOMAIN genFail

\* structFields has returned V and N, of the four fields of M, and chan int,
\* the type of the ignored M.Skip, has never been looked up or built
C14_Witness ==
  \E t \in Threads :
    /\ SFReturned(t)
    /\ Top(t).typ = "M"
    /\ Len(ret[t].fields) = 2
    /\ \A k \in DOMAIN genCalls \cup DOMAIN typeCache : k.typ # "Ch"

\* ------------------------------------------------------------------ C15
\* C15: when structFields returns without error the indices of its fields
\* are strictly increasing, each is the position of a kept field among all
\* the fields of the struct, and the info of each is the entry the map holds
\* for the key of the type and tags of the field at that position.
C15_DeclarationOrder ==
  \A t \in Threads :
    (SFReturned(t) /\ ret[t].err = "") =>
      LET fs == ret[t].fields
          typ == Top(t).typ
      IN /\ \A j \in 1..Len(fs) : \A h \in 1..Len(fs) :
              j < h => fs[j].index < fs[h].index
         /\ \A j \in 1..Len(fs) :
              /\ fs[j].index \in Kept(typ)
              /\ fs[j].info # Nil
              /\ fs[j].info = MapGet(typeCache, FieldKey(typ, fs[j].index))

\* structFields has returned for M: the second field it returns is N, the
\* fourth field of M, with the map's record for *N
C15_Witness ==
  \E t \in Threads :
    /\ SFReturned(t)
    /\ Top(t).typ = "M"
    /\ Len(ret[t].fields) = 2
    /\ ret[t].fields[2].index = 3
    /\ ret[t].fields[2].info = MapGet(typeCache, KeyOf("PN"))
    /\ ret[t].fields[1].info = MapGet(typeCache, KeyOf("U"))

\* ------------------------------------------------------------------ C16
\* structFields failed at field e.i of e.typ: the tag of the field did not
\* parse, or cachedTypeInfo1 returned an error for its type
FieldFailure(e) ==
  \/ e.ev = "parse" /\ e.err # ""
  \/ e.ev = "fail"

\* C16: when structFields fails at a field, every exported field before it
\* has been parsed without error and none of them failed, no field after it
\* is parsed or asked for in that call, and structFields returns the error
\* of that field and no fields.
C16_AbortOnFirstFailure ==
  \A t \in Threads :
    /\ \A e \in callLog[t].evs :
         FieldFailure(e) =>
           /\ \A e2 \in callLog[t].evs :
                (e2.typ = e.typ /\ e2.ev \in {"parse", "resolve", "fail"}) =>
                  /\ e2.i <= e.i
                  /\ (FieldFailure(e2) => e2.i = e.i)
           /\ \A h \in 0..(e.i - 1) :
                FieldAt(e.typ, h).exported =>
                  \E e2 \in callLog[t].evs :
                    e2.ev = "parse" /\ e2.typ = e.typ /\ e2.i = h /\ e2.err = ""
    /\ (SFReturned(t) /\ ret[t].err # "") =>
         /\ ret[t].fields = <<>>
         /\ ret[t].ptr = Nil
         /\ \E e \in callLog[t].evs :
              FieldFailure(e) /\ e.typ = Top(t).typ /\ e.err = ret[t].err

\* structFields has returned the error of G.C, whose type has no info, and
\* the malformed tag of G.Z, the field after it, has not been parsed
C16_Witness ==
  \E t \in Threads :
    /\ SFReturned(t)
    /\ Top(t).typ = "G"
    /\ ret[t].err = "type is not RLP-serializable"
    /\ \A e \in callLog[t].evs : e.typ = "G" => e.i = 0

\* ------------------------------------------------------------------ C17
\* the record at p holds the strategies genTypeInfo built for (typ, tags)
BuiltFor(p, typ, tags) ==
  /\ heap[p].decoder.typ = typ
  /\ heap[p].decoder.tags = tags
  /\ heap[p].writer.typ = typ
  /\ heap[p].writer.tags = tags

NilOKTags == Tags(TRUE, FALSE, FALSE)

\* C17: two keys of the map that differ in the type or in one of the three
\* tags have two records; every record cachedTypeInfo1 or cachedTypeInfo has
\* returned for a type and tags holds, once populated, the strategies built
\* for that very type and tags, never those of the same type with other
\* tags; and *N, asked for with no tags and with nilOK, is built once for
\* each of the two keys.
C17_KeysDistinguishTags ==
  /\ \A k1 \in DOMAIN typeCache : \A k2 \in DOMAIN typeCache :
       (k1 = k2) <=> (typeCache[k1] = typeCache[k2])
  /\ \A k \in DOMAIN typeCache :
       Populated(typeCache[k]) => BuiltFor(typeCache[k], k.typ, k.tags)
  /\ \A e \in retLog : Populated(e.ptr) => BuiltFor(e.ptr, e.typ, e.tags)
  /\ \A e \in returned : Populated(e.ptr) => BuiltFor(e.ptr, e.key.typ, NoTags)
  /\ \A k \in {typekey("PN", NoTags), typekey("PN", NilOKTags)} :
       Count(genOK, k) + Count(genFail, k) <= 1 /\ Count(genCalls, k) <= 1

\* *N has been asked for with no tags (by M.N) and with nilOK (by N.Self):
\* the map holds two populated records, each built once
C17_Witness ==
  /\ typekey("PN", NoTags) \in DOMAIN typeCache
  /\ typekey("PN", NilOKTags) \in DOMAIN typeCache
  /\ Populated(typeCache[typekey("PN", NoTags)])
  /\ Populated(typeCache[typekey("PN", NilOKTags)])
  /\ typeCache[typekey("PN", NoTags)] # typeCache[typekey("PN", NilOKTags)]
  /\ Count(genOK, typekey("PN", NoTags)) = 1
  /\ Count(genOK, typekey("PN", NilOKTags)) = 1
  /\ \E e \in retLog : e.typ = "PN" /\ e.tags = NilOKTags
  /\ \E e \in retLog : e.typ = "PN" /\ e.tags = NoTags

\* ------------------------------------------------------------------ C18
\* goroutine t takes a step of the fast path of cachedTypeInfo
FastStep(t) == pc[t] \in {"rlock", "lookup", "runlock"} /\ pc'[t] # pc[t]

\* while the mutex is read-locked no build is in progress: there is no
\* writer, no goroutine is inside cachedTypeInfo1, every entry is populated,
\* and what the lookup found is a populated record
C18_NoBuildWhileRead ==
  /\ readers # {} =>
       /\ writer = NoThread
       /\ \A u \in Threads : stack[u] = <<>>
       /\ \A k \in DOMAIN typeCache : Populated(typeCache[k])
  /\ \A t \in Threads :
       (pc[t] = "runlock" /\ info[t] # Nil) => Populated(info[t])
  /\ \A t \in Threads : pc[t] = "lock" => info[t] = Nil

\* a step of the fast path writes neither the map nor a record, takes no
\* write lock and runs no builder; the lookup reads the entry of the key,
\* and a lookup that found a record returns it at once
C18_FastStep ==
  \A t \in Threads :
    FastStep(t) =>
      /\ UNCHANGED <<typeCache, heap, writer, stack, genCalls, genOK, genFail>>
      /\ pc[t] = "lookup" =>
           /\ t \in readers
           /\ info'[t] = MapGet(typeCache, key[t])
      /\ (pc[t] = "runlock" /\ info[t] # Nil) =>
           /\ pc'[t] = "idle"
           /\ result'[t].ptr = info[t]
           /\ result'[t].err = ""
           /\ ~result'[t].slow
           /\ t \notin readers'

\* C18: a cachedTypeInfo call for a key that is populated returns the
\* record after one lookup under the read lock: its steps leave the map and
\* the records unchanged, take no write lock and run no builder, and no
\* read-locked lookup overlaps a build in progress.
C18_FastPathFrame == [](C18_NoBuildWhileRead) /\ [][C18_FastStep]_vars

\* every goroutine holds the read lock at once, each having found the
\* populated record of its key
C18_Witness ==
  /\ readers = Threads
  /\ \A t \in Threads :
       /\ pc[t] = "runlock"
       /\ info[t] # Nil
       /\ Populated(info[t])
       /\ info[t] = MapGet(typeCache, key[t])

\* ------------------------------------------------------------------ C19
\* genTypeInfo has returned without error to the cachedTypeInfo1 on top of
\* the stack of t
BuilderReturnedOK(t) ==
  /\ Running(t, "cachedTypeInfo1", "gen")
  /\ ret[t].set
  /\ ret[t].err = ""

\* C19: for every key whose build is in progress, and so whenever genTypeInfo
\* returns without error, the map holds for the key the very dummy value
\* that invocation of cachedTypeInfo1 stored, still zero: nothing nested in
\* the build has deleted or replaced it, and the dereference of line 89
\* never meets a missing entry.
C19_PlaceholderKept ==
  \A t \in Threads :
    /\ pc[t] # "panic"
    /\ \A j \in BuildFrames(t) :
         /\ stack[t][j].ph # Nil
         /\ MapGet(typeCache, FrameKey(stack[t][j])) = stack[t][j].ph
         /\ heap[stack[t][j].ph] = ZeroInfo
    /\ BuilderReturnedOK(t) =>
         /\ FrameKey(Top(t)) \in DOMAIN typeCache
         /\ typeCache[FrameKey(Top(t))] = Top(t).ph

\* genTypeInfo has returned without error for N, whose build asked for N
\* again and was given the dummy value, in a run where an earlier build
\* failed and was rolled back
C19_Witness ==
  \E t \in Threads :
    /\ BuilderReturnedOK(t)
    /\ Top(t).typ = "N"
    /\ typeCache[FrameKey(Top(t))] = Top(t).ph
    /\ \E e \in retLog : e.dummy /\ e.ptr = Top(t).ph
    /\ genFail # EmptyMap

\* ------------------------------------------------------------------ C20
\* the keys whose build the current call of t has begun, and has completed
Began(t) ==
  {typekey(e.typ, e.tags) : e \in {x \in callLog[t].evs : x.ev = "begin"}}

Built(t) ==
  {typekey(e.typ, e.tags) : e \in {x \in callLog[t].evs : x.ev = "built"}}

\* the keys whose build is in progress on the stack of t
Building(t) == {FrameKey(stack[t][j]) : j \in BuildFrames(t)}

\* C20: while a call holds the write lock the map is what the call found,
\* every entry of it unchanged, plus the keys whose build the call has
\* completed, plus the keys being built on its stack; a key whose build was
\* begun and is neither completed nor on the stack has been deleted because
\* an error is on its way up.  So when the call returns an error the keys
\* removed are exactly the keys that were being built on its stack when the
\* error arose, its own key among them; the keys built before the error
\* stay in the map, populated; the entries it found are as they were.
C20_RollbackScope ==
  \A t \in Threads :
    (pc[t] = "run" /\ writer = t) =>
      LET before == callLog[t].cache IN
      /\ DOMAIN typeCache = DOMAIN before \cup Built(t) \cup Building(t)
      /\ \A k \in DOMAIN before :
           typeCache[k] = before[k] /\ Populated(typeCache[k])
      /\ \A k \in Built(t) : Populated(typeCache[k]) /\ k \notin DOMAIN before
      /\ Built(t) \cup Building(t) \subseteq Began(t)
      /\ Built(t) \cap Building(t) = {}
      /\ Began(t) # Built(t) \cup Building(t) =>
           /\ ret[t].set
           /\ ret[t].err # ""
      /\ (AtReturn(t) /\ ret[t].err # "") =>
           /\ key[t] \in Began(t) \ Built(t)
           /\ DOMAIN typeCache = DOMAIN before \cup Built(t)
           /\ \A k \in Began(t) \ Built(t) : k \notin DOMAIN typeCache

\* the call for A returns its error to a cache that held M: the keys of A
\* and chan int are gone, those of *B, B and *A, built before the error,
\* are in the map, and the entry of M is as it was
C20_Witness ==
  \E t \in Threads :
    /\ AtReturn(t)
    /\ ret[t].err # ""
    /\ key[t] = KeyOf("A")
    /\ Built(t) = {KeyOf("PB"), KeyOf("B"), KeyOf("PA")}
    /\ Began(t) \ Built(t) = {KeyOf("A"), KeyOf("Ch")}
    /\ KeyOf("M") \in DOMAIN callLog[t].cache
    /\ {KeyOf("PB"), KeyOf("B"), KeyOf("PA"), KeyOf("M")} \subseteq DOMAIN typeCache
    /\ KeyOf("A") \notin DOMAIN typeCache

====
